---- MODULE Spec2Model ----
(***************************************************************************)
(* The series routes of src/models/Profile.js (the Express router that     *)
(* manages a Series document with embedded seasons, episodes and media,    *)
(* and the S3 blobs its asset references point to).                        *)
(*                                                                         *)
(* A request is a process: it loads the document (Series.findById), runs   *)
(* the handler's synchronous code on its in-memory copy, awaits one        *)
(* deleteFromS3 call per asset it cleans up, then awaits the save and      *)
(* responds.  The awaits are the only suspension points, so each is one    *)
(* step of the model.                                                      *)
(***************************************************************************)
EXTENDS Integers, Sequences, FiniteSets, TLC

VARIABLES
    db,      \* the persisted Series document, or NoSeries
    store,   \* the keys of the blobs present in the S3 bucket
    reqs,    \* per request process: its position, arguments and in-memory state
    fresh,   \* the last fresh value handed out (S3 object keys, media _ids)
    nreq     \* requests received so far (counted in mode Full)

vars == <<db, store, reqs, fresh, nreq>>

----------------------------------------------------------------------------
(* Bounds of the model *)

MaxRequests == 3    \* requests in one behaviour
MaxKeys     == 2    \* blobs uploaded in one behaviour (one more in mode Media)
MaxCountArg == 2    \* largest small seasonCount / episodeCount a request carries
MaxIndex    == 1    \* largest in-range seasonIndex / episodeIndex a request carries
MaxIdsLen   == 2    \* longest mediaIds list of a reorder request

(* Program constants *)

MaxSeasons  == 10
MaxEpisodes == 10

----------------------------------------------------------------------------
(* JavaScript values the handlers compute with.  A number is <<"num", n>>,  *)
(* NaN is <<"NaN">>, a missing body field is <<"undefined">>, and a string  *)
(* that is not numeric is <<"str">>.                                        *)

Num(n)    == <<"num", n>>
NaN       == <<"NaN">>
Undefined == <<"undefined">>
Str       == <<"str">>

IsNum(x) == x[1] = "num"

\* ToNumber: a non-numeric string and undefined convert to NaN.
ToNumber(x) == IF IsNum(x) THEN x ELSE NaN

\* x || d : undefined, 0 and NaN are falsy; a non-empty string is truthy.
OrDefault(x, d) ==
    IF x = Undefined \/ x = NaN \/ x = Num(0) THEN d ELSE x

\* Math.max(x, n) and Math.min(x, n): NaN if an argument converts to NaN.
MathMax(x, n) ==
    LET v == ToNumber(x) IN
    IF IsNum(v) THEN Num(IF v[2] >= n THEN v[2] ELSE n) ELSE NaN

MathMin(x, n) ==
    LET v == ToNumber(x) IN
    IF IsNum(v) THEN Num(IF v[2] <= n THEN v[2] ELSE n) ELSE NaN

\* ToLength of Array.from({ length: x }): NaN and negatives give 0.
ArrayLength(x) ==
    IF IsNum(x) /\ x[2] > 0 THEN x[2] ELSE 0

\* x >= n for a parsed index: any comparison with NaN is false.
Ge(x, n) == IsNum(x) /\ x[2] >= n

\* array[x] is an element (not undefined) of an array of length n.
IsIndex(x, n) == IsNum(x) /\ x[2] >= 0 /\ x[2] < n

\* Array.prototype.splice(i, 1) for a 0-based in-range i.
Splice(s, i) == [k \in 1..(Len(s) - 1) |-> IF k <= i THEN s[k] ELSE s[k + 1]]

RangeOf(s) == {s[k] : k \in 1..Len(s)}

----------------------------------------------------------------------------
(* Asset references.  The document stores the URL getS3Url builds from an   *)
(* object key; getKeyFromUrl strips the bucket prefix again and yields no   *)
(* key for a string that does not carry it.  Both live in config/s3.        *)

Null  == <<>>
NoKey == 0

getS3Url(key) == <<"https://bucket.s3/", key>>

getKeyFromUrl(url) ==
    IF Len(url) = 2 /\ url[1] = "https://bucket.s3/" THEN url[2] ELSE NoKey

----------------------------------------------------------------------------
(* The Series document (seriesSchema, seasonSchema, episodeSchema,          *)
(* mediaSchema).  The series' own title and description and an episode's    *)
(* description are left out: no route reads them.                           *)

\* Series.findById finds no document: the series was never created
\* (NoSeries) or has been deleted (Gone; its _id is not given out again).
NoSeries == [exists |-> FALSE, deleted |-> FALSE]
Gone     == [exists |-> FALSE, deleted |-> TRUE]

Missing(series) == series \in {NoSeries, Gone}

\* The episode literal of create-series, add-season and add-episode.
NewEpisode(n) ==
    [title |-> <<"Episode", n>>, thumbnail |-> Null, music |-> Null,
     musicOriginalName |-> Null, media |-> <<>>]

\* Array.from({ length: n }, (_, i) => episode titled `Episode ${i + 1}`)
NewEpisodes(n) == [i \in 1..n |-> NewEpisode(i)]

NewSeason(seasonNumber, numEpisodes) ==
    [title |-> <<"Season", seasonNumber>>, episodes |-> NewEpisodes(numEpisodes)]

\* A faulty clamp that forgets the upper cap: Math.max(count || 1, 1).
ClampCountNoCap(count, cap) ==
    ArrayLength(MathMax(OrDefault(count, Num(1)), 1))

\* Math.min(Math.max(count || 1, 1), 10) used as an array length.
ClampCount(count, cap) ==
    ArrayLength(MathMin(MathMax(OrDefault(count, Num(1)), 1), cap))

\* A media subdocument: Mongoose gives it a fresh _id, multer-s3 a fresh key.
NewMediaItem(key) ==
    [id |-> key, filename |-> key, url |-> getS3Url(key)]

\* The season, and the episode, a pair of in-range indices addresses.
SeasonAt(series, si)      == series.seasons[si + 1]
EpisodeAt(series, si, ei) == series.seasons[si + 1].episodes[ei + 1]

WithEpisode(series, si, ei, ep) ==
    [series EXCEPT !.seasons[si + 1].episodes[ei + 1] = ep]

----------------------------------------------------------------------------
(* Helpers of the router *)

\* getEpisode: "null" when an index is >= the length, "throw" when
\* series.seasons[seasonIndex] is undefined (a negative or NaN index passes
\* the >= test) and .episodes is read from it, "null" again when
\* season.episodes[episodeIndex] is undefined.
getEpisode(series, seasonIndex, episodeIndex) ==
    IF Ge(seasonIndex, Len(series.seasons)) THEN "null"
    ELSE IF ~IsIndex(seasonIndex, Len(series.seasons)) THEN "throw"
    ELSE LET season == SeasonAt(series, seasonIndex[2]) IN
         IF Ge(episodeIndex, Len(season.episodes)) THEN "null"
         ELSE IF ~IsIndex(episodeIndex, Len(season.episodes)) THEN "null"
         ELSE "found"

\* if (ref) { key = getKeyFromUrl(ref); if (key) await deleteFromS3(key) }
RefDeletes(ref) ==
    IF ref # Null /\ getKeyFromUrl(ref) # NoKey THEN <<getKeyFromUrl(ref)>> ELSE <<>>

RECURSIVE MediaDeletes(_)
MediaDeletes(media) ==
    IF media = <<>> THEN <<>>
    ELSE RefDeletes(Head(media).url) \o MediaDeletes(Tail(media))

\* A faulty deleteEpisodeAssets that forgets the media loop.
deleteEpisodeAssetsNoMedia(episode) ==
    RefDeletes(episode.thumbnail) \o RefDeletes(episode.music)

\* deleteEpisodeAssets: the keys it awaits deleteFromS3 for, in order.
deleteEpisodeAssets(episode) ==
    RefDeletes(episode.thumbnail) \o RefDeletes(episode.music)
        \o MediaDeletes(episode.media)

RECURSIVE EpisodesDeletes(_)
EpisodesDeletes(episodes) ==
    IF episodes = <<>> THEN <<>>
    ELSE deleteEpisodeAssets(Head(episodes)) \o EpisodesDeletes(Tail(episodes))

\* deleteSeasonAssets
deleteSeasonAssets(season) == EpisodesDeletes(season.episodes)

RECURSIVE SeasonsDeletes(_)
SeasonsDeletes(seasons) ==
    IF seasons = <<>> THEN <<>>
    ELSE deleteSeasonAssets(Head(seasons)) \o SeasonsDeletes(Tail(seasons))

----------------------------------------------------------------------------
(* What a handler's code decides between loading the document and its first *)
(* await: either the response of an early return / a caught exception       *)
(* (status 400, 404, 500, nothing saved, nothing deleted), or the document  *)
(* to save and the keys to await deleteFromS3 for before the save.          *)

Reject(code, series, why) ==
    [status |-> code, doc |-> series, deletes |-> <<>>, error |-> why]

Proceed(doc, deletes) ==
    [status |-> 0, doc |-> doc, deletes |-> deletes, error |-> ""]

----------------------------------------------------------------------------
(* Series and season routes *)

\* POST /series
createSeries(seasonCount, episodesPerSeason) ==
    LET numSeasons  == ClampCount(seasonCount, MaxSeasons)
        numEpisodes == ClampCount(episodesPerSeason, MaxEpisodes)
    IN  Proceed([thumbnail |-> Null,
                 seasons   |-> [si \in 1..numSeasons |-> NewSeason(si, numEpisodes)]],
                <<>>)

\* PUT /series/:id.  seasons is <<>> when the body has no seasons array, else
\* <<list>>; a field of an entry is <<>> when undefined, else <<value>>.
PutEpisode(ep, epData) ==
    IF epData.title # <<>> THEN [ep EXCEPT !.title = epData.title[1]] ELSE ep

PutSeason(season, seasonData) ==
    LET titled == IF seasonData.title # <<>>
                  THEN [season EXCEPT !.title = seasonData.title[1]]
                  ELSE season
    IN  IF seasonData.episodes = <<>> THEN titled
        ELSE [titled EXCEPT !.episodes =
                [ei \in 1..Len(@) |->
                    IF ei <= Len(seasonData.episodes[1])
                    THEN PutEpisode(@[ei], seasonData.episodes[1][ei])
                    ELSE @[ei]]]

updateSeries(series, seasons) ==
    IF Missing(series) THEN Reject(404, series, "Series not found")
    ELSE IF seasons = <<>> THEN Proceed(series, <<>>)
    ELSE Proceed([series EXCEPT !.seasons =
                    [si \in 1..Len(@) |->
                        IF si <= Len(seasons[1])
                        THEN PutSeason(@[si], seasons[1][si])
                        ELSE @[si]]],
                 <<>>)

\* DELETE /series/:id : the document is gone after findByIdAndDelete.
deleteSeries(series) ==
    IF Missing(series) THEN Reject(404, series, "Series not found")
    ELSE Proceed(Gone,
                 RefDeletes(series.thumbnail) \o SeasonsDeletes(series.seasons))

\* POST /series/:seriesId/seasons
addSeason(series, episodeCount) ==
    LET numEpisodes == ClampCount(episodeCount, MaxEpisodes) IN
    IF Missing(series) THEN Reject(404, series, "Series not found")
    ELSE IF Len(series.seasons) >= MaxSeasons
    THEN Reject(400, series, "Maximum 10 seasons allowed")
    ELSE Proceed([series EXCEPT !.seasons =
                    Append(@, NewSeason(Len(@) + 1, numEpisodes))],
                 <<>>)

\* DELETE /series/:seriesId/seasons/:seasonIndex.  A negative or NaN index
\* passes both tests; deleteSeasonAssets(undefined) then throws (500).
removeSeason(series, seasonIndex) ==
    IF Missing(series) THEN Reject(404, series, "Series not found")
    ELSE IF Ge(seasonIndex, Len(series.seasons))
    THEN Reject(400, series, "Invalid season index")
    ELSE IF Len(series.seasons) <= 1
    THEN Reject(400, series, "Cannot delete the last season")
    ELSE IF ~IsIndex(seasonIndex, Len(series.seasons))
    THEN Reject(500, series, "TypeError")
    ELSE Proceed([series EXCEPT !.seasons = Splice(@, seasonIndex[2])],
                 deleteSeasonAssets(SeasonAt(series, seasonIndex[2])))

\* POST /series/:seriesId/seasons/:seasonIndex/episodes
addEpisode(series, seasonIndex) ==
    IF Missing(series) THEN Reject(404, series, "Series not found")
    ELSE IF Ge(seasonIndex, Len(series.seasons))
    THEN Reject(400, series, "Invalid season index")
    ELSE IF ~IsIndex(seasonIndex, Len(series.seasons))
    THEN Reject(500, series, "TypeError")
    ELSE IF Len(SeasonAt(series, seasonIndex[2]).episodes) >= MaxEpisodes
    THEN Reject(400, series, "Maximum 10 episodes per season")
    ELSE Proceed([series EXCEPT !.seasons[seasonIndex[2] + 1].episodes =
                    Append(@, NewEpisode(Len(@) + 1))],
                 <<>>)

\* DELETE /series/:seriesId/seasons/:seasonIndex/episodes/:episodeIndex
removeEpisode(series, seasonIndex, episodeIndex) ==
    IF Missing(series) THEN Reject(404, series, "Series not found")
    ELSE IF Ge(seasonIndex, Len(series.seasons))
    THEN Reject(400, series, "Invalid season index")
    ELSE IF ~IsIndex(seasonIndex, Len(series.seasons))
    THEN Reject(500, series, "TypeError")
    ELSE LET season == SeasonAt(series, seasonIndex[2]) IN
         IF Ge(episodeIndex, Len(season.episodes))
         THEN Reject(400, series, "Invalid episode index")
         ELSE IF Len(season.episodes) <= 1
         THEN Reject(400, series, "Cannot delete the last episode in a season")
         ELSE IF ~IsIndex(episodeIndex, Len(season.episodes))
         THEN Reject(500, series, "TypeError")
         ELSE Proceed([series EXCEPT !.seasons[seasonIndex[2] + 1].episodes =
                         Splice(@, episodeIndex[2])],
                      deleteEpisodeAssets(season.episodes[episodeIndex[2] + 1]))

----------------------------------------------------------------------------
(* Upload routes.  multer-s3 has already put the uploaded file(s) in the    *)
(* bucket when the handler runs; file is <<>> when req.file is missing,     *)
(* else <<key>>, and files is the list of the keys of req.files.            *)

\* POST /series/:seriesId/upload/thumbnail
uploadSeriesThumbnail(series, file) ==
    IF file = <<>> THEN Reject(400, series, "No file uploaded")
    ELSE IF Missing(series) THEN Reject(404, series, "Series not found")
    ELSE Proceed([series EXCEPT !.thumbnail = getS3Url(file[1])],
                 RefDeletes(series.thumbnail))

\* A faulty episode-thumbnail upload that overwrites the reference without
\* deleting the old blob.
uploadThumbnailKeepOld(series, seasonIndex, episodeIndex, file) ==
    IF file = <<>> THEN Reject(400, series, "No file uploaded")
    ELSE IF Missing(series) THEN Reject(404, series, "Series not found")
    ELSE IF getEpisode(series, seasonIndex, episodeIndex) = "throw"
    THEN Reject(500, series, "TypeError")
    ELSE IF getEpisode(series, seasonIndex, episodeIndex) = "null"
    THEN Reject(400, series, "Invalid season or episode index")
    ELSE LET episode == EpisodeAt(series, seasonIndex[2], episodeIndex[2]) IN
         Proceed(WithEpisode(series, seasonIndex[2], episodeIndex[2],
                    [episode EXCEPT !.thumbnail = getS3Url(file[1])]),
                 <<>>)

\* POST /series/:seriesId/upload/thumbnail/:seasonIndex/:episodeIndex
uploadThumbnail(series, seasonIndex, episodeIndex, file) ==
    IF file = <<>> THEN Reject(400, series, "No file uploaded")
    ELSE IF Missing(series) THEN Reject(404, series, "Series not found")
    ELSE IF getEpisode(series, seasonIndex, episodeIndex) = "throw"
    THEN Reject(500, series, "TypeError")
    ELSE IF getEpisode(series, seasonIndex, episodeIndex) = "null"
    THEN Reject(400, series, "Invalid season or episode index")
    ELSE LET episode == EpisodeAt(series, seasonIndex[2], episodeIndex[2]) IN
         Proceed(WithEpisode(series, seasonIndex[2], episodeIndex[2],
                    [episode EXCEPT !.thumbnail = getS3Url(file[1])]),
                 RefDeletes(episode.thumbnail))

\* POST /series/:seriesId/upload/media/:seasonIndex/:episodeIndex
uploadMedia(series, seasonIndex, episodeIndex, files) ==
    IF files = <<>> THEN Reject(400, series, "No files uploaded")
    ELSE IF Missing(series) THEN Reject(404, series, "Series not found")
    ELSE IF getEpisode(series, seasonIndex, episodeIndex) = "throw"
    THEN Reject(500, series, "TypeError")
    ELSE IF getEpisode(series, seasonIndex, episodeIndex) = "null"
    THEN Reject(400, series, "Invalid season or episode index")
    ELSE LET episode  == EpisodeAt(series, seasonIndex[2], episodeIndex[2])
             newMedia == [k \in 1..Len(files) |-> NewMediaItem(files[k])]
         IN  Proceed(WithEpisode(series, seasonIndex[2], episodeIndex[2],
                        [episode EXCEPT !.media = @ \o newMedia]),
                     <<>>)

\* POST /series/:seriesId/upload/music/:seasonIndex/:episodeIndex
uploadMusic(series, seasonIndex, episodeIndex, file) ==
    IF file = <<>> THEN Reject(400, series, "No file uploaded")
    ELSE IF Missing(series) THEN Reject(404, series, "Series not found")
    ELSE IF getEpisode(series, seasonIndex, episodeIndex) = "throw"
    THEN Reject(500, series, "TypeError")
    ELSE IF getEpisode(series, seasonIndex, episodeIndex) = "null"
    THEN Reject(400, series, "Invalid season or episode index")
    ELSE LET episode == EpisodeAt(series, seasonIndex[2], episodeIndex[2]) IN
         Proceed(WithEpisode(series, seasonIndex[2], episodeIndex[2],
                    [episode EXCEPT !.music = getS3Url(file[1]),
                                    !.musicOriginalName = <<"originalname", file[1]>>]),
                 RefDeletes(episode.music))

----------------------------------------------------------------------------
(* Delete and reorder routes *)

\* DELETE /series/:seriesId/music/:seasonIndex/:episodeIndex
deleteMusic(series, seasonIndex, episodeIndex) ==
    IF Missing(series) THEN Reject(404, series, "Series not found")
    ELSE IF getEpisode(series, seasonIndex, episodeIndex) = "throw"
    THEN Reject(500, series, "TypeError")
    ELSE IF getEpisode(series, seasonIndex, episodeIndex) = "null"
    THEN Reject(400, series, "Invalid season or episode index")
    ELSE LET episode == EpisodeAt(series, seasonIndex[2], episodeIndex[2]) IN
         Proceed(WithEpisode(series, seasonIndex[2], episodeIndex[2],
                    [episode EXCEPT !.music = Null, !.musicOriginalName = Null]),
                 RefDeletes(episode.music))

\* episode.media.findIndex(m => m._id.toString() === mediaId), 1-based;
\* 0 stands for the -1 of "no such item".
FindIndex(media, mediaId) ==
    IF \E k \in 1..Len(media) : media[k].id = mediaId
    THEN CHOOSE k \in 1..Len(media) :
            /\ media[k].id = mediaId
            /\ \A j \in 1..(k - 1) : media[j].id # mediaId
    ELSE 0

\* A faulty media delete that calls splice(mediaIndex) without a count, which
\* removes the item and every item after it.
deleteMediaSpliceRest(series, seasonIndex, episodeIndex, mediaId) ==
    IF Missing(series) THEN Reject(404, series, "Series not found")
    ELSE IF getEpisode(series, seasonIndex, episodeIndex) = "throw"
    THEN Reject(500, series, "TypeError")
    ELSE IF getEpisode(series, seasonIndex, episodeIndex) = "null"
    THEN Reject(400, series, "Invalid season or episode index")
    ELSE LET episode    == EpisodeAt(series, seasonIndex[2], episodeIndex[2])
             mediaIndex == FindIndex(episode.media, mediaId)
         IN  IF mediaIndex = 0 THEN Reject(404, series, "Media not found")
             ELSE Proceed(WithEpisode(series, seasonIndex[2], episodeIndex[2],
                             [episode EXCEPT !.media = SubSeq(@, 1, mediaIndex - 1)]),
                          IF getKeyFromUrl(episode.media[mediaIndex].url) # NoKey
                          THEN <<getKeyFromUrl(episode.media[mediaIndex].url)>>
                          ELSE <<>>)

\* DELETE /series/:seriesId/media/:seasonIndex/:episodeIndex/:mediaId
deleteMedia(series, seasonIndex, episodeIndex, mediaId) ==
    IF Missing(series) THEN Reject(404, series, "Series not found")
    ELSE IF getEpisode(series, seasonIndex, episodeIndex) = "throw"
    THEN Reject(500, series, "TypeError")
    ELSE IF getEpisode(series, seasonIndex, episodeIndex) = "null"
    THEN Reject(400, series, "Invalid season or episode index")
    ELSE LET episode    == EpisodeAt(series, seasonIndex[2], episodeIndex[2])
             mediaIndex == FindIndex(episode.media, mediaId)
         IN  IF mediaIndex = 0 THEN Reject(404, series, "Media not found")
             ELSE Proceed(WithEpisode(series, seasonIndex[2], episodeIndex[2],
                             [episode EXCEPT !.media = Splice(@, mediaIndex - 1)]),
                          IF getKeyFromUrl(episode.media[mediaIndex].url) # NoKey
                          THEN <<getKeyFromUrl(episode.media[mediaIndex].url)>>
                          ELSE <<>>)

\* A faulty reordering that keeps the named items in their current order:
\* episode.media.filter(m => mediaIds.includes(m._id.toString()))
reorderedMediaInPlace(media, mediaIds) ==
    SelectSeq(media, LAMBDA m : \E k \in 1..Len(mediaIds) : mediaIds[k] = m.id)

\* mediaIds.map(id => episode.media.find(m => m._id.toString() === id))
\*         .filter(Boolean)
RECURSIVE reorderedMedia(_, _)
reorderedMedia(media, mediaIds) ==
    IF mediaIds = <<>> THEN <<>>
    ELSE LET found == FindIndex(media, Head(mediaIds)) IN
         (IF found = 0 THEN <<>> ELSE <<media[found]>>)
            \o reorderedMedia(media, Tail(mediaIds))

\* PUT /series/:seriesId/reorder/:seasonIndex/:episodeIndex.  mediaIds is
\* <<>> when the body has none (mediaIds.map then throws), else <<list>>.
reorderMedia(series, seasonIndex, episodeIndex, mediaIds) ==
    IF Missing(series) THEN Reject(404, series, "Series not found")
    ELSE IF getEpisode(series, seasonIndex, episodeIndex) = "throw"
    THEN Reject(500, series, "TypeError")
    ELSE IF getEpisode(series, seasonIndex, episodeIndex) = "null"
    THEN Reject(400, series, "Invalid season or episode index")
    ELSE IF mediaIds = <<>> THEN Reject(500, series, "TypeError")
    ELSE LET episode == EpisodeAt(series, seasonIndex[2], episodeIndex[2]) IN
         Proceed(WithEpisode(series, seasonIndex[2], episodeIndex[2],
                    [episode EXCEPT !.media = reorderedMedia(@, mediaIds[1])]),
                 <<>>)

----------------------------------------------------------------------------
(* Requests *)

Procs == {1, 2}

Idle ==
    [pc |-> "done", op |-> "none", args |-> <<>>, pre |-> NoSeries,
     doc |-> NoSeries, pending |-> <<>>, calls |-> <<>>, failed |-> <<>>,
     stale |-> FALSE, status |-> 0, error |-> ""]

\* The keys the document references.
EpisodeRefs(ep) ==
    {getKeyFromUrl(r) : r \in ({ep.thumbnail, ep.music} \ {Null})}
        \cup {getKeyFromUrl(ep.media[k].url) : k \in 1..Len(ep.media)}

SeasonRefs(season) ==
    UNION {EpisodeRefs(season.episodes[ei]) : ei \in 1..Len(season.episodes)}

DocRefs(series) ==
    IF Missing(series) THEN {}
    ELSE {getKeyFromUrl(r) : r \in ({series.thumbnail} \ {Null})}
            \cup UNION {SeasonRefs(series.seasons[si]) : si \in 1..Len(series.seasons)}

\* The arguments requests carry, by the mode of the exploration.
\*   Full: a count is undefined, a non-numeric string, negative, 0, a small
\*     number or one past the cap; an index is whatever parseInt makes of the path
\*     segment: NaN, a negative number, a position up to MaxIndex of the
\*     addressed sequence, or the first position past its end; an upload may
\*     carry no file; requests are counted and capped by MaxRequests.
\*   Assets, Reorder, Media, Create: the series is small (any size in
\*     Create), indices are positions of the addressed sequence, uploads carry
\*     files, requests are not counted (keys bounds the uploads).
CountArgs ==
    {Undefined, Str, Num(MaxSeasons + 1)} \cup {Num(n) : n \in -1..MaxCountArg}

Full    == [all |-> TRUE,  seasons |-> CountArgs, episodes |-> CountArgs,
            nofile |-> 0, keys |-> MaxKeys]
Assets  == [all |-> FALSE, seasons |-> {Num(1), Num(2)},
            episodes |-> {Num(1), Num(2)}, nofile |-> 1, keys |-> MaxKeys]
Reorder == [all |-> FALSE, seasons |-> {Num(1)}, episodes |-> {Num(2)},
            nofile |-> 1, keys |-> MaxKeys]
Media   == [all |-> FALSE, seasons |-> {Num(1)}, episodes |-> {Num(1)},
            nofile |-> 1, keys |-> MaxKeys + 1]
Create  == [all |-> FALSE, seasons |-> CountArgs, episodes |-> CountArgs,
            nofile |-> 1, keys |-> MaxKeys]
Conc    == [all |-> FALSE, seasons |-> {Num(2)}, episodes |-> {Num(1)},
            nofile |-> 1, keys |-> MaxKeys]
Race    == [all |-> FALSE, seasons |-> {Num(1)}, episodes |-> {Num(2)},
            nofile |-> 1, keys |-> MaxKeys]

IndexArgs(len, m) ==
    IF m.all
    THEN {NaN} \cup {Num(i) : i \in {j \in -1..len : j <= MaxIndex \/ j = len}}
    ELSE {Num(i) : i \in 0..(len - 1)}

SeasonIndexArgs(series, m) ==
    IndexArgs(IF Missing(series) THEN 0 ELSE Len(series.seasons), m)

EpisodeIndexArgs(series, seasonIndex, m) ==
    IndexArgs(IF ~Missing(series) /\ IsIndex(seasonIndex, Len(series.seasons))
              THEN Len(SeasonAt(series, seasonIndex[2]).episodes)
              ELSE 0, m)

\* The handler of process p has run from the load to its first await (or to
\* its early response): out is what it decided.
Begin(p, m, op, args, out) ==
    /\ reqs[p].pc = "done"
    /\ IF m.all THEN nreq < MaxRequests /\ nreq' = nreq + 1 ELSE nreq' = nreq
    /\ reqs' = [reqs EXCEPT ![p] =
                  [pc      |-> IF out.status # 0 THEN "done"
                               ELSE IF out.deletes # <<>> THEN "deleting"
                               ELSE "saving",
                   op      |-> op,
                   args    |-> args,
                   pre     |-> db,
                   doc     |-> out.doc,
                   pending |-> out.deletes,
                   calls   |-> <<>>,
                   failed  |-> <<>>,
                   stale   |-> FALSE,
                   status  |-> out.status,
                   error   |-> out.error]]

\* deleteFromS3 of config/s3: S3 deletes the object (ok) or the call fails;
\* a failure is logged and the promise resolves all the same.
deleteFromS3(key, ok) ==
    [store |-> IF ok THEN store \ {key} ELSE store, settled |-> "resolved"]

\* A faulty await that treats a failed deletion as an error of the request:
\* the catch block answers 500 and nothing is saved.
AwaitDeleteOrFail(p, ok) ==
    LET key    == Head(reqs[p].pending)
        result == deleteFromS3(key, ok)
    IN  /\ reqs[p].pc = "deleting"
        /\ store' = result.store
        /\ reqs' = [reqs EXCEPT ![p] =
              IF ~ok
              THEN [@ EXCEPT !.pc = "done", !.status = 500, !.error = "S3",
                             !.calls = Append(@, key),
                             !.failed = Append(@, key)]
              ELSE [@ EXCEPT !.pending = Tail(@),
                             !.calls   = Append(@, key),
                             !.pc      = IF Tail(reqs[p].pending) = <<>>
                                         THEN "saving" ELSE "deleting"]]
        /\ UNCHANGED <<db, fresh, nreq>>

\* await deleteFromS3(key) in a handler's try block: on a rejection the
\* catch block answers 500 and nothing is saved; else the handler goes on to
\* the next key, or to the save.
AwaitDelete(p, ok) ==
    LET key    == Head(reqs[p].pending)
        result == deleteFromS3(key, ok)
    IN  /\ reqs[p].pc = "deleting"
        /\ store' = result.store
        /\ reqs' = [reqs EXCEPT ![p] =
              IF result.settled = "rejected"
              THEN [@ EXCEPT !.pc = "done", !.status = 500, !.error = "S3",
                             !.calls = Append(@, key),
                             !.failed = Append(@, key)]
              ELSE [@ EXCEPT !.pending = Tail(@),
                             !.calls   = Append(@, key),
                             !.failed  = IF ok THEN @ ELSE Append(@, key),
                             !.pc      = IF Tail(reqs[p].pending) = <<>>
                                         THEN "saving" ELSE "deleting"]]
        /\ UNCHANGED <<db, fresh, nreq>>

DeleteCall(p) == \E ok \in BOOLEAN : AwaitDelete(p, ok)

\* The same await when the blob store does not fail.
DeleteOk(p) == AwaitDelete(p, TRUE)

(* series.save() on a document loaded with findById.  Mongoose does not    *)
(* write the document back: it sends an update of the paths the handler    *)
(* modified, applied to the document as it is stored at that moment.       *)
(*   - an assignment to a field is a $set of that path;                    *)
(*   - array.push is a $push onto the stored array;                        *)
(*   - array.splice and the assignment of an array are a $set of the whole *)
(*     array, from the request's in-memory copy.                           *)
(* The document's version (__v) is incremented by every update that may    *)
(* move array elements ($push, $set of an array), and an update of a path  *)
(* that goes through an array position, or that sets an array, is          *)
(* conditional on the version the request loaded: it fails (VersionError)  *)
(* if the version has been incremented since.  stale records that for a    *)
(* request in flight.                                                      *)

\* The request's handler modified its in-memory document.
Modified(r) == r.doc # r.pre

\* Routes whose update is conditional on the loaded version, and routes
\* whose update increments the version.
VersionWhereRoutes ==
    {"updateSeries", "removeSeason", "addEpisode", "removeEpisode",
     "uploadThumbnail", "uploadMedia", "uploadMusic", "deleteMusic",
     "deleteMedia", "reorderMedia"}

VersionIncRoutes ==
    {"addSeason", "removeSeason", "addEpisode", "removeEpisode",
     "uploadMedia", "deleteMedia", "reorderMedia"}

\* The stored value cur of an episode, of a season's episodes, of a season
\* and of the seasons after the update of the paths on which doc differs
\* from pre.
DeltaEpisode(cur, pre, doc, op) ==
    [title             |-> IF doc.title # pre.title THEN doc.title ELSE cur.title,
     thumbnail         |-> IF doc.thumbnail # pre.thumbnail
                           THEN doc.thumbnail ELSE cur.thumbnail,
     music             |-> IF doc.music # pre.music THEN doc.music ELSE cur.music,
     musicOriginalName |-> IF doc.musicOriginalName # pre.musicOriginalName
                           THEN doc.musicOriginalName ELSE cur.musicOriginalName,
     media             |-> IF doc.media = pre.media THEN cur.media
                           ELSE IF op = "uploadMedia"
                           THEN cur.media \o SubSeq(doc.media, Len(pre.media) + 1,
                                                     Len(doc.media))
                           ELSE doc.media]

DeltaEpisodes(cur, pre, doc, op) ==
    IF doc = pre THEN cur
    ELSE IF op = "addEpisode" THEN Append(cur, doc[Len(doc)])
    ELSE IF op = "removeEpisode" THEN doc
    ELSE [ei \in 1..Len(cur) |->
            IF ei <= Len(pre) /\ doc[ei] # pre[ei]
            THEN DeltaEpisode(cur[ei], pre[ei], doc[ei], op)
            ELSE cur[ei]]

DeltaSeason(cur, pre, doc, op) ==
    [title    |-> IF doc.title # pre.title THEN doc.title ELSE cur.title,
     episodes |-> DeltaEpisodes(cur.episodes, pre.episodes, doc.episodes, op)]

DeltaSeasons(cur, pre, doc, op) ==
    IF doc = pre THEN cur
    ELSE IF op = "addSeason" THEN Append(cur, doc[Len(doc)])
    ELSE IF op = "removeSeason" THEN doc
    ELSE [si \in 1..Len(cur) |->
            IF si <= Len(pre) /\ doc[si] # pre[si]
            THEN DeltaSeason(cur[si], pre[si], doc[si], op)
            ELSE cur[si]]

\* The stored document cur after the update request r sends.
ApplyDelta(cur, r) ==
    [thumbnail |-> IF r.doc.thumbnail # r.pre.thumbnail
                   THEN r.doc.thumbnail ELSE cur.thumbnail,
     seasons   |-> DeltaSeasons(cur.seasons, r.pre.seasons, r.doc.seasons, r.op)]

\* The update matches no document: the series has been deleted, or the
\* version the request loaded is no longer the stored one.
SaveFails(r) ==
    /\ r.op \notin {"createSeries", "deleteSeries"}
    /\ Modified(r)
    /\ Missing(db) \/ (r.stale /\ r.op \in VersionWhereRoutes)

\* await series.save() (Series.create, Series.findByIdAndDelete), then
\* res.json({ success: true, ... }); a failed save throws and the catch
\* block answers 500.
Save(p) ==
    LET r == reqs[p] IN
    /\ r.pc = "saving"
    /\ IF SaveFails(r)
       THEN /\ db' = db
            /\ reqs' = [reqs EXCEPT ![p].pc = "done", ![p].status = 500,
                                    ![p].error = "VersionError"]
       ELSE /\ db' = IF r.op \in {"createSeries", "deleteSeries"} THEN r.doc
                     ELSE IF Missing(db) THEN db
                     ELSE ApplyDelta(db, r)
            /\ reqs' = [q \in Procs |->
                  IF q = p THEN [r EXCEPT !.pc = "done", !.status = 200]
                  ELSE IF Modified(r) /\ r.op \in VersionIncRoutes
                            /\ reqs[q].pc # "done"
                  THEN [reqs[q] EXCEPT !.stale = TRUE]
                  ELSE reqs[q]]
    /\ UNCHANGED <<store, fresh, nreq>>

----------------------------------------------------------------------------
(* One action per route: the request arrives, the document is loaded and    *)
(* the handler runs to its first await.                                     *)

NoUpload == UNCHANGED <<db, store, fresh>>

\* multer-s3 stores n files under fresh keys before the handler runs.
Upload(m, n) ==
    /\ fresh + n <= m.keys
    /\ fresh' = fresh + n
    /\ store' = store \cup ((fresh + 1)..(fresh + n))
    /\ UNCHANGED db

UploadedKeys(n) == [k \in 1..n |-> fresh + k]

\* An id no media item carries, and the ids a request may name.
AbsentId == MaxKeys + 2

MediaIdArgs(series, seasonIndex, episodeIndex) ==
    {AbsentId} \cup
    (IF ~Missing(series) /\ getEpisode(series, seasonIndex, episodeIndex) = "found"
     THEN LET media == EpisodeAt(series, seasonIndex[2], episodeIndex[2]).media
          IN  {media[k].id : k \in 1..Len(media)}
     ELSE {})

SeqsUpTo(S, n) == UNION {[1..k -> S] : k \in 0..n}

Renamed == <<"Renamed">>

PutEpisodeData == [title : {<<>>, <<Renamed>>}]

PutSeasonData ==
    [title : {<<>>, <<Renamed>>},
     episodes : {<<>>} \cup {<< <<ed>> >> : ed \in PutEpisodeData}]

PutBodies == {<<>>} \cup {<< <<sd>> >> : sd \in PutSeasonData}

CreateSeries(p, m) ==
    \E seasonCount \in m.seasons, episodesPerSeason \in m.episodes :
        /\ db = NoSeries
        /\ Begin(p, m, "createSeries", <<seasonCount, episodesPerSeason>>,
                 createSeries(seasonCount, episodesPerSeason))
        /\ NoUpload

UpdateSeries(p, m) ==
    \E seasons \in PutBodies :
        /\ Begin(p, m, "updateSeries", <<seasons>>, updateSeries(db, seasons))
        /\ NoUpload

DeleteSeries(p, m) ==
    /\ Begin(p, m, "deleteSeries", <<>>, deleteSeries(db))
    /\ NoUpload

AddSeason(p, m) ==
    \E episodeCount \in m.episodes :
        /\ Begin(p, m, "addSeason", <<episodeCount>>, addSeason(db, episodeCount))
        /\ NoUpload

RemoveSeason(p, m) ==
    \E seasonIndex \in SeasonIndexArgs(db, m) :
        /\ Begin(p, m, "removeSeason", <<seasonIndex>>, removeSeason(db, seasonIndex))
        /\ NoUpload

AddEpisode(p, m) ==
    \E seasonIndex \in SeasonIndexArgs(db, m) :
        /\ Begin(p, m, "addEpisode", <<seasonIndex>>, addEpisode(db, seasonIndex))
        /\ NoUpload

RemoveEpisode(p, m) ==
    \E seasonIndex \in SeasonIndexArgs(db, m) :
      \E episodeIndex \in EpisodeIndexArgs(db, seasonIndex, m) :
        /\ Begin(p, m, "removeEpisode", <<seasonIndex, episodeIndex>>,
                 removeEpisode(db, seasonIndex, episodeIndex))
        /\ NoUpload

UploadSeriesThumbnail(p, m) ==
    \E n \in m.nofile..1 :
        /\ Begin(p, m, "uploadSeriesThumbnail", <<UploadedKeys(n)>>,
                 uploadSeriesThumbnail(db, UploadedKeys(n)))
        /\ Upload(m, n)

UploadThumbnail(p, m) ==
    \E seasonIndex \in SeasonIndexArgs(db, m), n \in m.nofile..1 :
      \E episodeIndex \in EpisodeIndexArgs(db, seasonIndex, m) :
        /\ Begin(p, m, "uploadThumbnail", <<seasonIndex, episodeIndex, UploadedKeys(n)>>,
                 uploadThumbnail(db, seasonIndex, episodeIndex, UploadedKeys(n)))
        /\ Upload(m, n)

UploadMedia(p, m) ==
    \E seasonIndex \in SeasonIndexArgs(db, m), n \in m.nofile..(m.keys - fresh) :
      \E episodeIndex \in EpisodeIndexArgs(db, seasonIndex, m) :
        /\ Begin(p, m, "uploadMedia", <<seasonIndex, episodeIndex, UploadedKeys(n)>>,
                 uploadMedia(db, seasonIndex, episodeIndex, UploadedKeys(n)))
        /\ Upload(m, n)

UploadMusic(p, m) ==
    \E seasonIndex \in SeasonIndexArgs(db, m), n \in m.nofile..1 :
      \E episodeIndex \in EpisodeIndexArgs(db, seasonIndex, m) :
        /\ Begin(p, m, "uploadMusic", <<seasonIndex, episodeIndex, UploadedKeys(n)>>,
                 uploadMusic(db, seasonIndex, episodeIndex, UploadedKeys(n)))
        /\ Upload(m, n)

DeleteMusic(p, m) ==
    \E seasonIndex \in SeasonIndexArgs(db, m) :
      \E episodeIndex \in EpisodeIndexArgs(db, seasonIndex, m) :
        /\ Begin(p, m, "deleteMusic", <<seasonIndex, episodeIndex>>,
                 deleteMusic(db, seasonIndex, episodeIndex))
        /\ NoUpload

DeleteMedia(p, m) ==
    \E seasonIndex \in SeasonIndexArgs(db, m) :
      \E episodeIndex \in EpisodeIndexArgs(db, seasonIndex, m) :
        \E mediaId \in MediaIdArgs(db, seasonIndex, episodeIndex) :
          /\ Begin(p, m, "deleteMedia", <<seasonIndex, episodeIndex, mediaId>>,
                   deleteMedia(db, seasonIndex, episodeIndex, mediaId))
          /\ NoUpload

ReorderMedia(p, m) ==
    \E seasonIndex \in SeasonIndexArgs(db, m) :
      \E episodeIndex \in EpisodeIndexArgs(db, seasonIndex, m) :
        \E mediaIds \in {<<>>} \cup
              {<<ids>> : ids \in SeqsUpTo(MediaIdArgs(db, seasonIndex, episodeIndex),
                                          MaxIdsLen)} :
          /\ Begin(p, m, "reorderMedia", <<seasonIndex, episodeIndex, mediaIds>>,
                   reorderMedia(db, seasonIndex, episodeIndex, mediaIds))
          /\ NoUpload

----------------------------------------------------------------------------
(* Specifications *)

Init ==
    /\ db = NoSeries
    /\ store = {}
    /\ reqs = [p \in Procs |-> Idle]
    /\ fresh = 0
    /\ nreq = 0

\* Requests are served one at a time.
Next ==
    \E p \in {1} :
        \/ CreateSeries(p, Full)
        \/ UpdateSeries(p, Full)
        \/ DeleteSeries(p, Full)
        \/ AddSeason(p, Full)
        \/ RemoveSeason(p, Full)
        \/ AddEpisode(p, Full)
        \/ RemoveEpisode(p, Full)
        \/ UploadSeriesThumbnail(p, Full)
        \/ UploadThumbnail(p, Full)
        \/ UploadMedia(p, Full)
        \/ UploadMusic(p, Full)
        \/ DeleteMusic(p, Full)
        \/ DeleteMedia(p, Full)
        \/ ReorderMedia(p, Full)
        \/ DeleteCall(p)
        \/ Save(p)

Spec == Init /\ [][Next]_vars

\* Every route that touches the bucket, on a small series.
NextAssets ==
    \E p \in {1} :
        \/ CreateSeries(p, Assets)
        \/ DeleteSeries(p, Assets)
        \/ RemoveSeason(p, Assets)
        \/ RemoveEpisode(p, Assets)
        \/ UploadSeriesThumbnail(p, Assets)
        \/ UploadThumbnail(p, Assets)
        \/ UploadMedia(p, Assets)
        \/ UploadMusic(p, Assets)
        \/ DeleteMusic(p, Assets)
        \/ DeleteMedia(p, Assets)
        \/ DeleteCall(p)
        \/ Save(p)

SpecAssets == Init /\ [][NextAssets]_vars

\* The routes that change an episode's media sequence, on a series of one
\* season with two episodes.
NextReorder ==
    \E p \in {1} :
        \/ CreateSeries(p, Reorder)
        \/ UploadMedia(p, Reorder)
        \/ DeleteMedia(p, Reorder)
        \/ ReorderMedia(p, Reorder)
        \/ DeleteCall(p)
        \/ Save(p)

SpecReorder == Init /\ [][NextReorder]_vars

\* Series creation with any counts, and a route that uses the new series.
NextCreate ==
    \E p \in {1} :
        \/ CreateSeries(p, Create)
        \/ UploadSeriesThumbnail(p, Create)
        \/ DeleteCall(p)
        \/ Save(p)

SpecCreate == Init /\ [][NextCreate]_vars

\* Media upload and delete on a series of one episode.
NextMedia ==
    \E p \in {1} :
        \/ CreateSeries(p, Media)
        \/ UploadMedia(p, Media)
        \/ DeleteMedia(p, Media)
        \/ DeleteCall(p)
        \/ Save(p)

SpecMedia == Init /\ [][NextMedia]_vars

\* Two requests on the same series at a time, interleaved at their awaits
\* (the load and the handler's code up to its first await are one step: the
\* handler runs to its first await without interruption, and a load is
\* atomic); the blob store does not fail.
\* Season removal and thumbnail uploads on a series of two seasons.
NextConc ==
    \/ CreateSeries(1, Conc)
    \/ \E p \in Procs :
        \/ RemoveSeason(p, Conc)
        \/ UploadSeriesThumbnail(p, Conc)
        \/ UploadThumbnail(p, Conc)
        \/ DeleteOk(p)
        \/ Save(p)

SpecConc == Init /\ [][NextConc]_vars

\* Episode removal and music upload and deletion on a season of two episodes.
NextRace ==
    \/ CreateSeries(1, Race)
    \/ \E p \in Procs :
        \/ RemoveEpisode(p, Race)
        \/ UploadMusic(p, Race)
        \/ DeleteMusic(p, Race)
        \/ DeleteOk(p)
        \/ Save(p)

SpecRace == Init /\ [][NextRace]_vars

----------------------------------------------------------------------------
(* Vocabulary of the properties *)

\* The request has been answered with an error (nothing saved).
Rejected(r) == r.pc = "done" /\ r.status \notin {0, 200}

\* The request has been answered with success, after its save.
Succeeded(r) == r.pc = "done" /\ r.status = 200

\* The request passed its handler's validation (it is awaiting, or done).
Accepted(r) == r.op # "none" /\ r.status \in {0, 200}

\* The keys the request has asked, or is still to ask, S3 to delete.
Issued(r) == r.calls \o r.pending

\* The routes that address an episode by (seasonIndex, episodeIndex), the
\* first two arguments of the request.
EpisodeRoutes ==
    {"uploadThumbnail", "uploadMedia", "uploadMusic", "deleteMusic",
     "deleteMedia", "reorderMedia"}

\* Both indices are integers and in range for the document.
InRange(series, seasonIndex, episodeIndex) ==
    /\ IsNum(seasonIndex) /\ IsNum(episodeIndex)
    /\ seasonIndex[2] \in 0..(Len(series.seasons) - 1)
    /\ episodeIndex[2] \in 0..(Len(SeasonAt(series, seasonIndex[2]).episodes) - 1)

----------------------------------------------------------------------------
(* C1: the persisted series always has between 1 and 10 seasons; a         *)
(* remove-season request on a series of exactly 1 season is rejected, and   *)
(* an add-season request on a series of 10 seasons is rejected.             *)
C1_SeasonCountWithinBounds ==
    /\ ~Missing(db) => Len(db.seasons) \in 1..10
    /\ \A p \in Procs :
         LET r == reqs[p] IN
         /\ (r.op = "removeSeason" /\ r.pc = "done" /\ ~Missing(r.pre)
                /\ Len(r.pre.seasons) = 1) => Rejected(r)
         /\ (r.op = "addSeason" /\ r.pc = "done" /\ ~Missing(r.pre)
                /\ Len(r.pre.seasons) = 10) => Rejected(r)

(* C2: every season of the persisted series always has between 1 and 10    *)
(* episodes; a remove-episode request on a season of exactly 1 episode is   *)
(* rejected, and an add-episode request on a season of 10 episodes is       *)
(* rejected.                                                                *)
C2_EpisodeCountWithinBounds ==
    /\ ~Missing(db) =>
         \A si \in 1..Len(db.seasons) : Len(db.seasons[si].episodes) \in 1..10
    /\ \A p \in Procs :
         LET r == reqs[p] IN
         (r.op \in {"removeEpisode", "addEpisode"} /\ r.pc = "done"
             /\ ~Missing(r.pre) /\ IsIndex(r.args[1], Len(r.pre.seasons))) =>
           LET n == Len(SeasonAt(r.pre, r.args[1][2]).episodes) IN
           /\ (r.op = "removeEpisode" /\ n = 1) => Rejected(r)
           /\ (r.op = "addEpisode" /\ n = 10) => Rejected(r)

(* C3: whenever a successful request overwrites or removes an asset         *)
(* reference of the document, it has issued a deleteFromS3 call for the     *)
(* key that was referenced.                                                 *)
C3_DroppedReferencesAreDeleted ==
    \A p \in Procs :
        LET r == reqs[p] IN
        Succeeded(r) => (DocRefs(r.pre) \ DocRefs(r.doc)) \subseteq RangeOf(r.calls)

(* C5: media ids are unique within every episode's media sequence of the    *)
(* persisted series.                                                        *)
C5_MediaIdsUnique ==
    ~Missing(db) =>
        \A si \in 1..Len(db.seasons) :
            \A ei \in 1..Len(db.seasons[si].episodes) :
                LET media == db.seasons[si].episodes[ei].media IN
                \A j, k \in 1..Len(media) : media[j].id = media[k].id => j = k

(* C7: a request that addresses an episode with integer indices of which    *)
(* one is out of range (negative ones included) is answered 400 or 404,     *)
(* never 500; with both in range it is served on the episode at that        *)
(* position.                                                                *)
C7_OutOfRangeIsClientError ==
    \A p \in Procs :
        LET r == reqs[p] IN
        (r.op \in EpisodeRoutes /\ r.pc = "done" /\ ~Missing(r.pre)
            /\ IsNum(r.args[1]) /\ IsNum(r.args[2])) =>
          IF InRange(r.pre, r.args[1], r.args[2])
          THEN getEpisode(r.pre, r.args[1], r.args[2]) = "found"
          ELSE r.status \in {400, 404}

(* C8: a remove-season or remove-episode request with an out-of-range       *)
(* index, or one that would remove the last season of the series or the     *)
(* last episode of its season, is answered 400, leaves the persisted        *)
(* document unchanged and issues no deleteFromS3 call.                      *)
C8_RejectedRemovalIs400 ==
    \A p \in Procs :
        LET r == reqs[p]
            seasonOut == ~IsIndex(r.args[1], Len(r.pre.seasons))
            lastSeason == Len(r.pre.seasons) = 1
            episodes == SeasonAt(r.pre, r.args[1][2]).episodes
        IN
        (r.op \in {"removeSeason", "removeEpisode"} /\ r.pc = "done"
            /\ ~Missing(r.pre) /\ \A k \in 1..Len(r.args) : IsNum(r.args[k])) =>
          ((IF r.op = "removeSeason" THEN seasonOut \/ lastSeason
            ELSE seasonOut \/ ~IsIndex(r.args[2], Len(episodes))
                    \/ Len(episodes) = 1)
           => r.status = 400 /\ db = r.pre /\ r.calls = <<>>)

----------------------------------------------------------------------------
(* Asset references by position: the episodes of a document, the reference  *)
(* slots of an episode that are set, and the key a slot refers to.          *)

EpisodePositions(series) ==
    UNION {{<<si, ei>> : ei \in 1..Len(series.seasons[si].episodes)} :
              si \in 1..Len(series.seasons)}

EpisodeSlots(ep) ==
    {<<f, 0>> : f \in {g \in {"thumbnail", "music"} : ep[g] # Null}}
        \cup {<<"media", k>> : k \in 1..Len(ep.media)}

SlotKey(ep, slot) ==
    getKeyFromUrl(IF slot[1] = "media" THEN ep.media[slot[2]].url ELSE ep[slot[1]])

\* The set slots of the episodes at the given positions, and the keys there.
SlotsAt(series, positions) ==
    UNION {{<<pos, slot>> : slot \in EpisodeSlots(series.seasons[pos[1]].episodes[pos[2]])} :
              pos \in positions}

KeyAt(series, at) == SlotKey(series.seasons[at[1][1]].episodes[at[1][2]], at[2])

\* The positions a remove-season or remove-episode request removes.
RemovedPositions(r) ==
    IF r.op = "removeSeason"
    THEN {pos \in EpisodePositions(r.pre) : pos[1] = r.args[1][2] + 1}
    ELSE {<<r.args[1][2] + 1, r.args[2][2] + 1>>}

Occurrences(seq, x) == Cardinality({k \in 1..Len(seq) : seq[k] = x})

(* C4: an accepted remove-season or remove-episode request issues, for      *)
(* every key, exactly as many deleteFromS3 calls as the removed subtree has *)
(* set references to it (thumbnail, music, each media url; none for an      *)
(* unset reference), and no call for a key referenced by an episode that    *)
(* is not removed or by the series thumbnail.                               *)
C4_RemovalDeletesExactlyOwnedAssets ==
    \A p \in Procs :
        LET r == reqs[p] IN
        (r.op \in {"removeSeason", "removeEpisode"} /\ Accepted(r)) =>
          LET removed  == SlotsAt(r.pre, RemovedPositions(r))
              retained == SlotsAt(r.pre, EpisodePositions(r.pre) \ RemovedPositions(r))
          IN  /\ Len(Issued(r)) = Cardinality(removed)
              /\ \A at \in removed :
                    Occurrences(Issued(r), KeyAt(r.pre, at)) =
                        Cardinality({o \in removed : KeyAt(r.pre, o) = KeyAt(r.pre, at)})
              /\ \A at \in retained : KeyAt(r.pre, at) \notin RangeOf(Issued(r))
              /\ r.pre.thumbnail # Null =>
                    getKeyFromUrl(r.pre.thumbnail) \notin RangeOf(Issued(r))
              /\ Succeeded(r) => r.calls = Issued(r)

\* A season holding a media item and two unset references has been removed,
\* with one call, while the rest of the series keeps an asset.
C4_Witness ==
    \E p \in Procs :
        LET r == reqs[p] IN
        /\ r.op = "removeSeason" /\ Succeeded(r)
        /\ Len(r.calls) = 1
        /\ \E pos \in RemovedPositions(r) :
              LET ep == r.pre.seasons[pos[1]].episodes[pos[2]] IN
              Len(ep.media) = 1 /\ ep.thumbnail = Null /\ ep.music = Null
        /\ DocRefs(db) # {}

(* C6: an accepted reorder request sets the episode's media sequence to the *)
(* requested ids without those that name no current item, each replaced by *)
(* the item it names, in the order of the ids, and leaves the rest of the   *)
(* document alone; items whose id is not requested are absent from the      *)
(* result, and no deleteFromS3 call is issued.                              *)
C6_ReorderIsIdsFilteredToExisting ==
    \A p \in Procs :
        LET r == reqs[p] IN
        (r.op = "reorderMedia" /\ Accepted(r)) =>
          LET si       == r.args[1][2]
              ei       == r.args[2][2]
              ids      == r.args[3][1]
              episode  == EpisodeAt(r.pre, si, ei)
              Named(id) == \E k \in 1..Len(episode.media) : episode.media[k].id = id
              kept     == SelectSeq(ids, Named)
              expected == [k \in 1..Len(kept) |->
                             CHOOSE m \in RangeOf(episode.media) : m.id = kept[k]]
              result   == EpisodeAt(r.doc, si, ei).media
          IN  /\ result = expected
              /\ r.doc = WithEpisode(r.pre, si, ei, [episode EXCEPT !.media = expected])
              /\ \A m \in RangeOf(episode.media) :
                    m.id \notin RangeOf(ids) => m \notin RangeOf(result)
              /\ Issued(r) = <<>>
              /\ Succeeded(r) => db = r.doc

\* A reorder naming an absent id and the second of two items has been saved:
\* the result is that item alone.
C6_Witness ==
    \E p \in Procs :
        LET r == reqs[p] IN
        /\ r.op = "reorderMedia" /\ Succeeded(r)
        /\ LET media == EpisodeAt(r.pre, r.args[1][2], r.args[2][2]).media
               ids   == r.args[3][1]
               saved == EpisodeAt(db, r.args[1][2], r.args[2][2]).media
           IN  /\ Len(media) = 2 /\ media[1].id # media[2].id
               /\ ids = <<AbsentId, media[2].id>>
               /\ saved = <<media[2]>>

ReplacedRef(r) ==
    IF r.op = "uploadSeriesThumbnail" THEN r.pre.thumbnail
    ELSE LET episode == EpisodeAt(r.pre, r.args[1][2], r.args[2][2]) IN
         IF r.op = "uploadThumbnail" THEN episode.thumbnail ELSE episode.music

UploadedKey(r) == r.args[Len(r.args)][1]

(* C10: an accepted thumbnail (series or episode) or music upload issues    *)
(* exactly one deleteFromS3 call, for the key of the reference it replaces, *)
(* or none when that reference is unset; the persisted document carries the *)
(* new reference only after that call has been made.                        *)
C10_ReplaceDeletesOldOnceBeforeSave ==
    \A p \in Procs :
        LET r == reqs[p] IN
        (r.op \in {"uploadSeriesThumbnail", "uploadThumbnail", "uploadMusic"}
            /\ Accepted(r)) =>
          LET expected == IF ReplacedRef(r) = Null THEN <<>>
                          ELSE <<getKeyFromUrl(ReplacedRef(r))>>
          IN  /\ Issued(r) = expected
              /\ UploadedKey(r) \in DocRefs(db) => r.calls = expected
              /\ Succeeded(r) => UploadedKey(r) \in DocRefs(db)

\* An episode's thumbnail has been replaced: one call, for the old key, and
\* the persisted episode refers to the new one.
C10_Witness ==
    \E p \in Procs :
        LET r == reqs[p] IN
        /\ r.op = "uploadThumbnail" /\ Succeeded(r)
        /\ ReplacedRef(r) # Null
        /\ r.calls = <<getKeyFromUrl(ReplacedRef(r))>>
        /\ EpisodeAt(db, r.args[1][2], r.args[2][2]).thumbnail = getS3Url(UploadedKey(r))

----------------------------------------------------------------------------
\* clamp(x, lo, hi) on the integers.
Clamp(x, lo, hi) == IF x < lo THEN lo ELSE IF x > hi THEN hi ELSE x

\* The count a series is created with for an integer or missing argument.
ExpectedCount(count) ==
    IF count = Undefined THEN 1 ELSE Clamp(count[2], 1, 10)

\* Every optional field of the episode is unset.
Blank(episode) ==
    episode.thumbnail = Null /\ episode.music = Null /\ episode.media = <<>>

\* The season is titled "Season n" and has m blank episodes titled
\* "Episode 1".."Episode m" in order.
FreshSeason(season, n, m) ==
    /\ season.title = <<"Season", n>>
    /\ Len(season.episodes) = m
    /\ \A ei \in 1..m :
          season.episodes[ei].title = <<"Episode", ei>> /\ Blank(season.episodes[ei])

(* C11: a create-series request with integer (or missing) seasonCount s and *)
(* episodesPerSeason e yields clamp(s,1,10) seasons titled "Season 1".. in  *)
(* order, each of clamp(e,1,10) episodes titled "Episode 1".. in order with *)
(* thumbnail and music null and no media, and no series thumbnail; a        *)
(* missing or zero count counts as 1; that document is what is saved.       *)
C11_CreateSeriesShape ==
    \A p \in Procs :
        LET r == reqs[p] IN
        (r.op = "createSeries" /\ r.args[1] # Str /\ r.args[2] # Str) =>
          LET n == ExpectedCount(r.args[1])
              m == ExpectedCount(r.args[2])
          IN  /\ Accepted(r)
              /\ r.doc.thumbnail = Null
              /\ Len(r.doc.seasons) = n
              /\ \A si \in 1..n : FreshSeason(r.doc.seasons[si], si, m)
              /\ (r.args[1] \in {Undefined, Num(0)} => Len(r.doc.seasons) = 1)
              /\ Succeeded(r) => db = r.doc

\* A series created with seasonCount 11 and no episodesPerSeason is saved:
\* ten seasons of one episode each.
C11_Witness ==
    \E p \in Procs :
        LET r == reqs[p] IN
        /\ r.op = "createSeries" /\ Succeeded(r)
        /\ r.args = <<Num(MaxSeasons + 1), Undefined>>
        /\ Len(db.seasons) = 10
        /\ db.seasons[10].title = <<"Season", 10>>
        /\ Len(db.seasons[10].episodes) = 1

(* C12: an add-season request on a series of n < 10 seasons appends exactly *)
(* one season, titled "Season n+1", of clamp(episodeCount,1,10) blank       *)
(* episodes titled "Episode 1".., and leaves the n existing seasons and the *)
(* rest of the series as they were; on a series of 10 seasons it is         *)
(* answered 400 and the series is unchanged.                                *)
C12_AddSeasonAppendsOne ==
    \A p \in Procs :
        LET r == reqs[p] IN
        (r.op = "addSeason" /\ ~Missing(r.pre)) =>
          LET n     == Len(r.pre.seasons)
              added == r.doc.seasons[n + 1]
          IN  IF n >= 10
              THEN r.status = 400 /\ r.doc = r.pre /\ db = r.pre
              ELSE /\ Accepted(r)
                   /\ Len(r.doc.seasons) = n + 1
                   /\ \A si \in 1..n : r.doc.seasons[si] = r.pre.seasons[si]
                   /\ r.doc.thumbnail = r.pre.thumbnail
                   /\ FreshSeason(added, n + 1, Len(added.episodes))
                   /\ IF r.args[1] = Str
                      THEN Len(added.episodes) \in 1..10
                      ELSE Len(added.episodes) = ExpectedCount(r.args[1])
                   /\ Succeeded(r) => db = r.doc

(* C13: a media-delete request naming an id that no media item of the       *)
(* addressed episode has is answered 404, changes nothing and issues no     *)
(* deleteFromS3 call; otherwise it issues one call, for that item's key,    *)
(* removes exactly that item from the episode's media sequence and leaves   *)
(* the other items, in their order, and the rest of the document alone.     *)
C13_RemoveMediaRemovesExactlyOne ==
    \A p \in Procs :
        LET r == reqs[p] IN
        (r.op = "deleteMedia" /\ ~Missing(r.pre)
            /\ getEpisode(r.pre, r.args[1], r.args[2]) = "found") =>
          LET si      == r.args[1][2]
              ei      == r.args[2][2]
              episode == EpisodeAt(r.pre, si, ei)
              media   == episode.media
              result  == EpisodeAt(r.doc, si, ei).media
          IN  IF \A k \in 1..Len(media) : media[k].id # r.args[3]
              THEN /\ r.status = 404 /\ r.doc = r.pre /\ db = r.pre
                   /\ Issued(r) = <<>>
              ELSE /\ Accepted(r)
                   /\ \E k \in 1..Len(media) :
                         /\ media[k].id = r.args[3]
                         /\ Issued(r) = <<getKeyFromUrl(media[k].url)>>
                         /\ Len(result) = Len(media) - 1
                         /\ \A j \in 1..(k - 1) : result[j] = media[j]
                         /\ \A j \in k..(Len(media) - 1) : result[j] = media[j + 1]
                   /\ r.doc = WithEpisode(r.pre, si, ei, [episode EXCEPT !.media = result])
                   /\ Succeeded(r) => db = r.doc /\ r.calls = Issued(r)

\* The first of three media items has been deleted: the two others remain,
\* in their order, and one call was made, for the first item's key.
C13_Witness ==
    \E p \in Procs :
        LET r == reqs[p] IN
        /\ r.op = "deleteMedia" /\ Succeeded(r)
        /\ LET media == EpisodeAt(r.pre, r.args[1][2], r.args[2][2]).media IN
           /\ Len(media) = 3
           /\ r.args[3] = media[1].id
           /\ EpisodeAt(db, r.args[1][2], r.args[2][2]).media = <<media[2], media[3]>>
           /\ r.calls = <<getKeyFromUrl(media[1].url)>>

----------------------------------------------------------------------------
\* Both requests have been answered, and each loaded the document before
\* the other saved: they loaded the same document and each modified it.
Overlapped(r1, r2) ==
    /\ r1.pc = "done" /\ r2.pc = "done"
    /\ ~Missing(r1.pre) /\ r1.pre = r2.pre
    /\ Modified(r1) /\ Modified(r2)

(* C14: when two mutating requests on the series overlap, both are answered *)
(* success, the persisted document after both is the in-memory document of  *)
(* one of them alone (the one that saved last), and the blobs they deleted  *)
(* stay deleted.                                                            *)
C14_LastWriteWinsOnWholeDocument ==
    Overlapped(reqs[1], reqs[2]) =>
        /\ reqs[1].status = 200 /\ reqs[2].status = 200
        /\ db \in {reqs[1].doc, reqs[2].doc}
        /\ \A p \in Procs : RangeOf(reqs[p].calls) \cap store = {}

(* C15: when two requests that overlapped have both been answered success  *)
(* (no save failed, the blob store did not fail) and the document they      *)
(* loaded had no reference to a missing blob, every asset reference of the  *)
(* persisted series (series thumbnail, episode thumbnails, episode music,   *)
(* media urls) refers to a blob that is in the store.                       *)
C15_NoDanglingReference ==
    (/\ Overlapped(reqs[1], reqs[2])
     /\ reqs[1].status = 200 /\ reqs[2].status = 200
     /\ DocRefs(reqs[1].pre) \ (RangeOf(reqs[1].calls) \cup RangeOf(reqs[2].calls))
            \subseteq store)
    => DocRefs(db) \subseteq store

====
